---------------------------- MODULE Spec2Model ----------------------------
(***************************************************************************)
(* Model of ms-sbom-export (src/main.py): the /msapi/sbom handler          *)
(* export_sbom, the SQLAlchemy engine it draws connections from, the       *)
(* session-scoped staging tables dm_sbom / dm_vulns, the enrichment        *)
(* service and the persisted dm.* tables the handler queries.              *)
(*                                                                         *)
(* Strings the code inspects character by character (the raw identifiers,  *)
(* vulnerability ids) are sequences of one-character strings; names that   *)
(* are only copied and compared are TLA+ strings.                          *)
(***************************************************************************)
EXTENDS Integers, Sequences, FiniteSets, TLC

VARIABLES
    faults,      \* how many more storage faults the environment may inject
    db,          \* the persisted dm.* tables (not written by this service)
    traffic,     \* the (compid, appid, envid) triples clients send
    quota,       \* requests clients will still send
    no_of_retry, \* main.py:150, no_of_retry = DB_CONN_RETRY
    nreq,        \* requests started so far; a request's serial number
    sessions,    \* database sessions (DBAPI connections) and their temp tables
    pool,        \* per server process: the engine's idle pooled connections
    loc          \* per server process: the handler's locals and position

vars == <<db, traffic, quota, faults, no_of_retry, nreq, sessions, pool, loc>>

-----------------------------------------------------------------------------
(* Bounds of the model *)

\* requests served in one behaviour
MaxRequests == 2
\* rows of dm.dm_applist in the environment-resolution specification
MaxApplist == 2
\* storage faults injected while two processes serve requests side by side
MaxFaults == 1

(* Program constants *)

\* main.py:49
DB_CONN_RETRY == 3

\* server processes (each imports main.py and owns one engine, main.py:100).
\* export_sbom is an async function that never awaits, so one process runs
\* its requests one after another; requests overlap only across processes.
Procs == {1, 2}
\* database sessions that can be open at once: one per process
ConnIds == {1, 2}

-----------------------------------------------------------------------------
(* Strings *)

\* Python's None for Optional[str] parameters
None == <<"None">>
\* str(None)
NoneStr == <<"N", "o", "n", "e">>

Digits == {"0", "1", "2", "3", "4", "5", "6", "7", "8", "9"}
DigitVal(c) ==
    CASE c = "0" -> 0 [] c = "1" -> 1 [] c = "2" -> 2 [] c = "3" -> 3
      [] c = "4" -> 4 [] c = "5" -> 5 [] c = "6" -> 6 [] c = "7" -> 7
      [] c = "8" -> 8 [] c = "9" -> 9

\* str.startswith
startswith(s, p) == Len(s) >= Len(p) /\ SubSeq(s, 1, Len(p)) = p
\* s[2:]
DropTwo(s) == SubSeq(s, 3, Len(s))
\* str(x) of an Optional[str]
Str(x) == IF x = None THEN NoneStr ELSE x

\* The integer a text parameter denotes when PostgreSQL compares it with an
\* integer column; InvalidKey when the cast raises (invalid input syntax).
InvalidKey == -1
RECURSIVE DecimalOf(_)
DecimalOf(s) ==
    IF Len(s) = 0 THEN 0
    ELSE 10 * DecimalOf(SubSeq(s, 1, Len(s) - 1)) + DigitVal(s[Len(s)])
KeyOf(s) ==
    IF Len(s) > 0 /\ \A i \in 1..Len(s) : s[i] \in Digits
    THEN DecimalOf(s) ELSE InvalidKey

-----------------------------------------------------------------------------
(* Identifier normalisation, main.py:139-146 *)

NormCompidAnyKind(c) ==
    IF c # None /\ (startswith(c, <<"c", "v">>) \/ startswith(c, <<"c", "o">>)
                    \/ startswith(c, <<"e", "n">>))
    THEN DropTwo(c) ELSE c
NormCompid(c) ==
    IF c # None /\ (startswith(c, <<"c", "v">>) \/ startswith(c, <<"c", "o">>))
    THEN DropTwo(c) ELSE c
NormAppid(a) ==
    IF a # None /\ (startswith(a, <<"a", "v">>) \/ startswith(a, <<"a", "p">>))
    THEN DropTwo(a) ELSE a
NormEnvid(e) ==
    IF e # None /\ startswith(e, <<"e", "n">>)
    THEN DropTwo(e) ELSE e

-----------------------------------------------------------------------------
(* The persisted store.  The service only reads it (main.py:201, 210-240,  *)
(* 311-373, 385-391, 435-490); rows are records named after the columns    *)
(* the queries use.                                                        *)

\* SQL NULL in a text column
NULL == "NULL"

Component(id, name, status) == [id |-> id, name |-> name, status |-> status, ownerid |-> 1, domainid |-> 1]
Dep(compid, pkg, ver, lic, purl, deptype) ==
    [compid |-> compid, packagename |-> pkg, packageversion |-> ver, name |-> lic,
     url |-> "lic-url", summary |-> "", purl |-> purl, pkgtype |-> "npm", deptype |-> deptype]
Vuln(id, pkg, ver, purl, risk) ==
    [id |-> id, packagename |-> pkg, packageversion |-> ver, purl |-> purl,
     summary |-> "cve-summary", risklevel |-> risk]
AppRow(id, parentid, created, deploymentid) ==
    [id |-> id, parentid |-> parentid, created |-> created, deploymentid |-> deploymentid]
Deployment(deploymentid, envid, appid) ==
    [deploymentid |-> deploymentid, envid |-> envid, appid |-> appid]

\* vulnerability ids
GHSA1 == <<"G", "-", "1">>
GHSA2 == <<"G", "-", "2">>
OSV3 == <<"o", "/", "3">>

\* One populated database: component 1 "web" and 2 "api" are active, 3 "old" is
\* retired; application 1 "shop" has components 1 and 3, application 2 "legacy"
\* only the retired 3; environment 7 "prod" has deployments 10 and 11 of one
\* lineage (11 the newer), environment 8 "staging" has none.
ScenarioDB ==
    [component |-> {Component(1, "web", "N"), Component(2, "api", "N"), Component(3, "old", "R")},
     application |-> {[id |-> 1, name |-> "shop"], [id |-> 2, name |-> "legacy"]},
     applicationcomponent |-> {[appid |-> 1, compid |-> 1], [appid |-> 1, compid |-> 3],
                               [appid |-> 2, compid |-> 3]},
     environment |-> {[id |-> 7, name |-> "prod"], [id |-> 8, name |-> "staging"]},
     applist |-> {AppRow(1, 1, 1, 10), AppRow(2, 1, 2, 11)},
     deployment |-> {Deployment(10, 7, 1), Deployment(11, 7, 1)},
     deploymentcomps |-> {[deploymentid |-> 10, compid |-> 1],
                          [deploymentid |-> 11, compid |-> 1],
                          [deploymentid |-> 11, compid |-> 2]},
     componentdeps |-> {Dep(1, "left-pad", "1.0.0", "MIT", NULL, "license"),
                        Dep(1, "lodash", "4.0", "MIT", "pkg:npm/lodash@4.0", "cve"),
                        Dep(3, "ansi", "0.1", NULL, NULL, "license")},
     vulns |-> {Vuln(GHSA1, "left-pad", "1.0.0", NULL, "High")},
     componentitem |-> {[compid |-> 1, repositoryid |-> 5], [compid |-> 3, repositoryid |-> 0]},
     repository |-> {[id |-> 5, name |-> "repo", domainid |-> 1]},
     user |-> {[id |-> 1, realname |-> "owner"]}]

\* The enrichment service's catalogue (an external collaborator): the records
\* it returns for a component key, in the shape main.py:270 and :297 read.
SvcLicense ==
    {[key |-> 1, packagename |-> "left-pad", packageversion |-> "1.0.0", name |-> "MIT",
      url |-> "lic-url", summary |-> "", pkgtype |-> "npm"],
     [key |-> 2, packagename |-> "lodash", packageversion |-> "4.0", name |-> "MIT",
      url |-> "lic-url", summary |-> "", pkgtype |-> "npm"]}
SvcVulns ==
    {[key |-> 1, packagename |-> "left-pad", packageversion |-> "1.0.0", name |-> GHSA2,
      url |-> "pkg:npm/left-pad@1.0.0", summary |-> "cve-summary", risklevel |-> "Critical"],
     [key |-> 2, packagename |-> "lodash", packageversion |-> "4.0", name |-> OSV3,
      url |-> "pkg:npm/lodash@4.0", summary |-> "cve-summary", risklevel |-> "Moderate"]}

-----------------------------------------------------------------------------
(* Sequences and sets *)

Range(f) == {f[i] : i \in DOMAIN f}
Max(S) == CHOOSE x \in S : \A y \in S : y <= x
Min(S) == CHOOSE x \in S : \A y \in S : x <= y

\* list(set(xs)) of integers: every member once.  Python fixes no order for
\* it; ascending order stands for the one the interpreter picks.
RECURSIVE ListOfSet(_)
ListOfSet(S) == IF S = {} THEN <<>> ELSE <<Min(S)>> \o ListOfSet(S \ {Min(S)})
KeepDuplicates(xs) == xs
Dedup(xs) == ListOfSet(Range(xs))

\* The orders in which a cursor or pandas.read_sql may deliver a result set
\* that the query does not order.
Enumerations(S) ==
    {f \in [1..Cardinality(S) -> S] : \A x \in S : \E i \in DOMAIN f : f[i] = x}

-----------------------------------------------------------------------------
(* Scope resolution, main.py:196-252 *)

\* main.py:201: the application's components whose status is 'N'
AppScopeRows(d, appkey) ==
    {a.compid : a \in {a \in d.applicationcomponent :
        a.appid = appkey /\ \E b \in d.component : a.compid = b.id /\ b.status = "N"}}

\* main.py:212-229: ROW_NUMBER() OVER (PARTITION BY parentid ORDER BY created
\* DESC) numbers one row of each parentid group 1, a row with the greatest
\* created; among equal created values PostgreSQL may pick any.  Each member
\* of RankedFirst is one outcome: the rn = 1 rows.
Newest(applist, a) == \A o \in applist : o.parentid = a.parentid => o.created <= a.created
Oldest(applist, a) == \A o \in applist : o.parentid = a.parentid => o.created >= a.created
IsFirstOfGroup(applist, a) == Newest(applist, a)
RankedFirst(applist) ==
    {T \in SUBSET {a \in applist : IsFirstOfGroup(applist, a)} :
        \A a \in applist : Cardinality({t \in T : t.parentid = a.parentid}) = 1}

\* main.py:230-239: the deployments of the rn = 1 rows, positive, of the environment
EnvDeploymentsAnyKey(d, envkey, T) ==
    {b.deploymentid : b \in {b \in d.deployment :
        b.envid = envkey /\ \E a \in T : a.deploymentid = b.deploymentid}}
EnvDeployments(d, envkey, T) ==
    {b.deploymentid : b \in {b \in d.deployment :
        b.envid = envkey /\ \E a \in T : a.deploymentid = b.deploymentid /\ a.deploymentid > 0}}

\* main.py:211: select distinct b.compid, b.deploymentid from dm.dm_deploymentcomps
EnvScopeRows(d, envkey, T) ==
    {<<b.compid, b.deploymentid>> : b \in {b \in d.deploymentcomps :
        b.deploymentid \in EnvDeployments(d, envkey, T)}}

\* main.py:248-250: one append per fetched row, here in (deployment, component) order
RECURSIVE RowsInOrder(_)
RowsInOrder(R) ==
    IF R = {} THEN <<>>
    ELSE LET m == CHOOSE r \in R : \A o \in R :
                     r[2] < o[2] \/ (r[2] = o[2] /\ r[1] <= o[1])
         IN <<m>> \o RowsInOrder(R \ {m})

-----------------------------------------------------------------------------
(* Database sessions.  dm_sbom and dm_vulns are TEMPORARY tables            *)
(* (main.py:167-193): they belong to the session of the DBAPI connection    *)
(* and live until that connection is closed.  Each staged row carries the   *)
(* serial number of the request that inserted it ("by"), which no query     *)
(* selects.                                                                 *)

\* a connection just opened: no temporary table yet
FreshSession == [open |-> TRUE, tmp |-> FALSE, sbom |-> {}, vulns |-> {}, uvulns |-> {}]
Closed == [open |-> FALSE, tmp |-> FALSE, sbom |-> {}, vulns |-> {}, uvulns |-> {}]

\* conn.commit(): the rows inserted in the open transaction become permanent
Commit(s) == [s EXCEPT !.vulns = s.vulns \cup s.uvulns, !.uvulns = {}]
\* the pool's reset on return (rollback): the open transaction is undone
Rollback(s) == [s EXCEPT !.uvulns = {}]

\* main.py:270, the tuple inserted into dm_sbom for a record of the service
SbomTuple(by, row) ==
    [by |-> by, compid |-> row.key, packagename |-> row.packagename,
     packageversion |-> row.packageversion, name |-> row.name, url |-> row.url,
     summary |-> row.summary, purl |-> "", pkgtype |-> row.pkgtype]
\* main.py:297, the tuple inserted into dm_vulns
VulnTuple(by, row) ==
    [by |-> by, packagename |-> row.packagename, packageversion |-> row.packageversion,
     id |-> row.name, purl |-> row.url, summary |-> row.summary, risklevel |-> row.risklevel]

-----------------------------------------------------------------------------
(* The SBOM query, main.py:307-382 *)

\* the ten selected columns
PkgRow(appname, deploymentid, b, compname) ==
    [appname |-> appname, deploymentid |-> deploymentid, packagename |-> b.packagename,
     packageversion |-> b.packageversion, name |-> b.name, url |-> b.url,
     summary |-> b.summary, compname |-> compname, purl |-> b.purl, pkgtype |-> b.pkgtype]

CompName(d, compid) == (CHOOSE c \in d.component : c.id = compid).name

\* main.py:311-320, the rows of each FROM list that satisfy the WHERE clause
CompStaged(d, s, objid) ==
    {b \in s.sbom : b.compid = objid /\ \E c \in d.component : b.compid = c.id}
CompPersisted(d, objid) ==
    {b \in d.componentdeps : b.compid = objid /\ b.deptype = "license"
                             /\ \E c \in d.component : b.compid = c.id}
\* main.py:323-329
AppStaged(d, s, objid) ==
    {b \in s.sbom : /\ \E a \in d.applicationcomponent : a.appid = objid /\ a.compid = b.compid
                    /\ \E c \in d.component : c.id = b.compid}
AppPersisted(d, objid) ==
    {b \in d.componentdeps :
        /\ \E a \in d.applicationcomponent : a.appid = objid /\ a.compid = b.compid
        /\ \E c \in d.component : c.id = b.compid
        /\ b.deptype = "license"}
\* main.py:334-373: application a, deployment b, applicationcomponent c,
\* dependency d (dd), component e
EnvJoin(d, deploy) ==
    {<<a, b, c>> \in d.application \X d.deployment \X d.applicationcomponent :
        /\ a.id = b.appid /\ a.id = c.appid
        /\ \E e \in d.component : c.compid = e.id
        /\ b.deploymentid \in deploy}
EnvRows(d, deploy, deps) ==
    {PkgRow(j[1].name, j[2].deploymentid, dd, CompName(d, j[3].compid)) :
        <<j, dd>> \in {x \in EnvJoin(d, deploy) \X deps : x[1][3].compid = x[2].compid}}
EnvStaged(d, s, deploy) ==
    {dd \in s.sbom : \E j \in EnvJoin(d, deploy) : j[3].compid = dd.compid}

\* which of the three statements main.py:309-374 selects ("" when no
\* identifier was given: sqlstmt stays the empty string of main.py:307)
SbomShape(l) ==
    IF l.compid # None THEN "comp"
    ELSE IF l.appid # None THEN "app"
    ELSE IF l.envid # None THEN "env" ELSE ""
\* objid, main.py:308, 331, 374
Objid(l) ==
    IF l.compid # None THEN l.compid
    ELSE IF l.appid # None THEN l.appid
    ELSE l.envid

\* the staged rows the statement reads on session s
SbomStagedRead(d, s, l) ==
    CASE SbomShape(l) = "comp" -> CompStaged(d, s, KeyOf(l.compid))
      [] SbomShape(l) = "app" -> AppStaged(d, s, KeyOf(l.appid))
      [] SbomShape(l) = "env" -> EnvStaged(d, s, Range(l.deploylist))
      [] OTHER -> {}
\* the result set (UNION removes duplicate rows)
SbomResult(d, s, l) ==
    CASE SbomShape(l) = "comp" ->
            {PkgRow("", 0, b, CompName(d, b.compid)) :
                b \in CompStaged(d, s, KeyOf(l.compid)) \cup CompPersisted(d, KeyOf(l.compid))}
      [] SbomShape(l) = "app" ->
            {PkgRow("", 0, b, CompName(d, b.compid)) :
                b \in AppStaged(d, s, KeyOf(l.appid)) \cup AppPersisted(d, KeyOf(l.appid))}
      [] SbomShape(l) = "env" ->
            EnvRows(d, Range(l.deploylist), d.componentdeps)
                \cup EnvRows(d, Range(l.deploylist), s.sbom)
      [] OTHER -> {}

-----------------------------------------------------------------------------
(* Vulnerability correlation, main.py:384-399 *)

\* packagename || '@' || packageversion, and main.py:393.  ANY(:pkglist) and
\* ANY(:purllist) ask for membership only, so the two lists are kept as the
\* sets of their members.
At(name, version) == <<name, "@", version>>
PkgList(df_pkgs) == {At(r.packagename, r.packageversion) : r \in df_pkgs}
\* main.py:394: the purl of the rows whose purl is not null
PurlList(df_pkgs) == {r.purl : r \in {r \in df_pkgs : r.purl # NULL}}

\* the WHERE clause of main.py:387 and :390 (a NULL purl equals nothing)
VulnMatches(v, pkglist, purllist) ==
    \/ At(v.packagename, v.packageversion) \in pkglist
    \/ (v.purl # NULL /\ v.purl \in purllist)
\* the six selected columns
VulnRow(v) ==
    [id |-> v.id, packagename |-> v.packagename, packageversion |-> v.packageversion,
     purl |-> v.purl, cve_summary |-> v.summary, risklevel |-> v.risklevel]
\* the staged rows the statement reads on session s: the session sees its own
\* uncommitted inserts
VulnStagedRead(s, df_pkgs) ==
    {v \in s.vulns \cup s.uvulns : VulnMatches(v, PkgList(df_pkgs), PurlList(df_pkgs))}
\* main.py:385-391, the result set
VulnResult(d, s, df_pkgs) ==
    {VulnRow(v) : v \in VulnStagedRead(s, df_pkgs)
                    \cup {v \in d.vulns : VulnMatches(v, PkgList(df_pkgs), PurlList(df_pkgs))}}

\* fillna(""), main.py:399, of a text cell
FillNa(x) == IF x = NULL THEN "" ELSE x

\* main.py:398-400 and the renaming of :412/:416: a package row paired with a
\* vulnerability row, and a package row that found none (every right-hand
\* cell is NaN, filled with "")
Paired(p, v) ==
    [Application |-> p.appname, Deployment |-> p.deploymentid, Package |-> p.packagename,
     Version |-> p.packageversion, License |-> FillNa(p.name), Component |-> p.compname,
     CVE |-> v.id, Purl |-> FillNa(v.purl), Description |-> FillNa(v.cve_summary),
     RiskLevel |-> v.risklevel]
Unpaired(p) ==
    [Application |-> p.appname, Deployment |-> p.deploymentid, Package |-> p.packagename,
     Version |-> p.packageversion, License |-> FillNa(p.name), Component |-> p.compname,
     CVE |-> <<>>, Purl |-> "", Description |-> "", RiskLevel |-> ""]

\* an inner join: the matches only
InnerOne(p, df_vulns) ==
    LET hits == SelectSeq(df_vulns, LAMBDA v : v.packagename = p.packagename
                                             /\ v.packageversion = p.packageversion)
    IN [i \in DOMAIN hits |-> Paired(p, hits[i])]
\* a left join that also pairs on equal package URLs
MergeOneByPurl(p, df_vulns) ==
    LET hits == SelectSeq(df_vulns, LAMBDA v :
                    \/ v.packagename = p.packagename /\ v.packageversion = p.packageversion
                    \/ v.purl # NULL /\ v.purl = p.purl)
    IN IF hits = <<>> THEN <<Unpaired(p)>> ELSE [i \in DOMAIN hits |-> Paired(p, hits[i])]
\* df_pkgs.merge(df_vulns, how="left", on=["packagename", "packageversion"]):
\* left order kept, the matches of one left row in right order
MergeOne(p, df_vulns) ==
    LET hits == SelectSeq(df_vulns, LAMBDA v : v.packagename = p.packagename
                                             /\ v.packageversion = p.packageversion)
    IN IF hits = <<>> THEN <<Unpaired(p)>> ELSE [i \in DOMAIN hits |-> Paired(p, hits[i])]
RECURSIVE Merge(_, _)
Merge(df_pkgs, df_vulns) ==
    IF df_pkgs = <<>> THEN <<>>
    ELSE MergeOne(Head(df_pkgs), df_vulns) \o Merge(Tail(df_pkgs), df_vulns)

-----------------------------------------------------------------------------
(* Risk classification, sorting and partition, main.py:402-426 *)

\* main.py:402, the categories in their order
Categories == <<"Critical", "High", "Medium", "Low">>
\* pd.Categorical: a value outside the categories becomes NaN; main.py:408-409
\* turn NaN into ""
Categorical(risk) == IF risk \in Range(Categories) THEN risk ELSE ""
\* sort position of a category; NaN sorts last
CategoryRank(risk) ==
    IF risk \in Range(Categories)
    THEN CHOOSE i \in DOMAIN Categories : Categories[i] = risk
    ELSE Len(Categories) + 1

\* the text values that occur in sort keys, in Python's str order
SortedStrings ==
    <<"", "0.1", "1.0.0", "4.0", "ansi", "left-pad", "legacy", "lodash", "shop">>
StrRank(x) == CHOOSE i \in DOMAIN SortedStrings : SortedStrings[i] = x

\* a sort on package and version before the category
SortKeyPackageFirst(row, env) ==
    <<StrRank(row.Package), StrRank(row.Version), CategoryRank(row.RiskLevel)>>
\* main.py:405 and :407, the sort keys
SortKey(row, env) ==
    IF env
    THEN <<CategoryRank(row.RiskLevel), StrRank(row.Package), StrRank(row.Version),
           StrRank(row.Application), row.Deployment>>
    ELSE <<CategoryRank(row.RiskLevel), StrRank(row.Package), StrRank(row.Version)>>
RECURSIVE LexLess(_, _)
LexLess(a, b) ==
    IF a = <<>> THEN FALSE
    ELSE Head(a) < Head(b) \/ (Head(a) = Head(b) /\ LexLess(Tail(a), Tail(b)))

\* DataFrame.sort_values on several columns sorts stably (a lexsort): rows
\* with equal keys keep the order they had
RECURSIVE InsertStable(_, _, _)
InsertStable(sorted, row, env) ==
    IF sorted = <<>> THEN <<row>>
    ELSE IF LexLess(SortKey(row, env), SortKey(sorted[Len(sorted)], env))
         THEN InsertStable(SubSeq(sorted, 1, Len(sorted) - 1), row, env)
                  \o <<sorted[Len(sorted)]>>
         ELSE sorted \o <<row>>
RECURSIVE SortValues(_, _)
SortValues(df, env) ==
    IF df = <<>> THEN <<>>
    ELSE InsertStable(SortValues(SubSeq(df, 1, Len(df) - 1), env), df[Len(df)], env)

\* make_clickable, main.py:38-40, and its use at main.py:420
OsvPrefix ==
    <<"h", "t", "t", "p", "s", ":", "/", "/", "o", "s", "v", ".", "d", "e", "v", "/",
      "v", "u", "l", "n", "e", "r", "a", "b", "i", "l", "i", "t", "y", "/">>
\* url.split("/")[-1]
RECURSIVE LastSegment(_)
LastSegment(url) ==
    IF url = <<>> \/ url[Len(url)] = "/" THEN <<>>
    ELSE LastSegment(SubSeq(url, 1, Len(url) - 1)) \o <<url[Len(url)]>>
\* a link labelled with all that follows the fixed prefix
LinkLabelledById(url) == <<"a", url, SubSeq(url, Len(OsvPrefix) + 1, Len(url))>>
make_clickable(url) == <<"a", url, LastSegment(url)>>
CveCell(x) == IF Len(x) > 0 THEN make_clickable(OsvPrefix \o x) ELSE x

\* the displayed row: main.py:412-418 drop Purl (and Application, Deployment
\* unless envid is given), :422-426 drop Risk Level
Displayed(row, env) ==
    IF env
    THEN [Application |-> row.Application, Deployment |-> row.Deployment,
          Package |-> row.Package, Version |-> row.Version, License |-> row.License,
          CVE |-> CveCell(row.CVE), Description |-> row.Description,
          Component |-> row.Component]
    ELSE [Package |-> row.Package, Version |-> row.Version, License |-> row.License,
          CVE |-> CveCell(row.CVE), Description |-> row.Description,
          Component |-> row.Component]
\* a split that keeps the first row of a level only
TableOfFirstRow(df, level, env) ==
    LET rows == SelectSeq(df, LAMBDA row : Categorical(row.RiskLevel) = level)
    IN [i \in DOMAIN rows \cap {1} |-> Displayed(rows[i], env)]
\* df.loc[df["Risk Level"] == level], in df's order
TableOf(df, level, env) ==
    LET rows == SelectSeq(df, LAMBDA row : Categorical(row.RiskLevel) = level)
    IN [i \in DOMAIN rows |-> Displayed(rows[i], env)]
\* the five tables of main.py:422-426
Tables(df, env) ==
    [critical |-> TableOf(df, "Critical", env), high |-> TableOf(df, "High", env),
     medium |-> TableOf(df, "Medium", env), low |-> TableOf(df, "Low", env),
     good |-> TableOf(df, "", env)]
\* main.py:155-159, the tables before any attempt fills them
NoTables == [critical |-> <<>>, high |-> <<>>, medium |-> <<>>, low |-> <<>>, good |-> <<>>]

-----------------------------------------------------------------------------
(* Object name and component metadata, main.py:428-566 *)

\* main.py:433-436, 463-466, 496-499: the name rows of the object
ObjnameRows(d, l) ==
    IF l.compid # None
    THEN {<<"Component<br>", c.name>> : c \in {c \in d.component : c.id = KeyOf(l.compid)}}
    ELSE IF l.appid # None
    THEN {<<"Application<br>", a.name>> : a \in {a \in d.application : a.id = KeyOf(l.appid)}}
    ELSE {<<"Environment<br>", e.name>> : e \in {e \in d.environment : e.id = KeyOf(Str(l.envid))}}

\* fulldomain(domainid, name), a function of the database
fulldomain(domainid, name) == <<domainid, name>>
\* the columns of main.py:442-456 that tell rows apart here: row[0], the
\* repository (row[1]) and the service owner (row[20])
MetaRow(b, rep, c) == [compname |-> fulldomain(b.domainid, b.name), repository |-> rep, serviceowner |-> c.realname]
\* both branches of the UNION, for the components in `comps`
MetaJoin(d, comps) ==
    {MetaRow(b, fulldomain(r.domainid, r.name), c) :
        <<a, b, c, r>> \in {x \in d.componentitem \X d.component \X d.user \X d.repository :
            /\ x[1].compid = x[2].id /\ x[2].ownerid = x[3].id /\ x[1].repositoryid = x[4].id
            /\ x[2] \in comps}}
    \cup
    {MetaRow(b, <<>>, c) :
        <<a, b, c>> \in {x \in d.componentitem \X d.component \X d.user :
            /\ x[1].compid = x[2].id /\ x[2].ownerid = x[3].id /\ x[1].repositoryid = 0
            /\ x[2] \in comps}}
\* the metadata of the application's components whatever their status
MetaRowsAnyStatus(d, l) ==
    IF l.compid # None
    THEN MetaJoin(d, {b \in d.component : b.id = KeyOf(l.compid)})
    ELSE MetaJoin(d, {b \in d.component :
            \E ac \in d.applicationcomponent : ac.appid = KeyOf(l.appid) /\ ac.compid = b.id})
\* main.py:441-457 (one component) and :470-490 (the application's active components)
MetaRows(d, l) ==
    IF l.compid # None
    THEN MetaJoin(d, {b \in d.component : b.id = KeyOf(l.compid)})
    ELSE MetaJoin(d, {b \in d.component :
            /\ b.status = "N"
            /\ \E ac \in d.applicationcomponent : ac.appid = KeyOf(l.appid) /\ ac.compid = b.id})
\* main.py:509-565: the summary built from one row
CompSummary(row) == [compname |-> row.compname, serviceowner |-> row.serviceowner]

-----------------------------------------------------------------------------
(* The enrichment service, main.py:253-305 *)

\* the component keys a call is scoped by: compid, or the joined complist
ScopeKeys(l) == IF l.compid # None THEN {KeyOf(l.compid)} ELSE Range(l.complist)
\* main.py:253: deppkg_url is never empty (main.py:93-98 gives it a default)
CallsEnrichment(l) == l.compid # None \/ l.appid # None \/ l.envid # None
\* what a GET leaves to stage: the "data" records of a good response; nothing
\* when the response has no "data" field or the call ends in HTTPError or
\* another RequestException (a timeout), which main.py:276-279, 302-305 swallow
Responses == {"data", "nodata", "HTTPError", "RequestException"}
Failures == {"HTTPError", "RequestException"}
LicenseRecords(resp, l) == IF resp = "data" THEN {r \in SvcLicense : r.key \in ScopeKeys(l)} ELSE {}
VulnRecords(resp, l) == IF resp = "data" THEN {r \in SvcVulns : r.key \in ScopeKeys(l)} ELSE {}

-----------------------------------------------------------------------------
(* Exceptions.  engine.connect() and pandas.read_sql(..., connection) run   *)
(* through SQLAlchemy, which raises its own sqlalchemy.exc classes.  Every  *)
(* cursor.execute / conn.commit on the raw DBAPI cursor of main.py:164-165  *)
(* raises the driver's psycopg2 classes, which are not subclasses of the    *)
(* sqlalchemy.exc ones imported at main.py:33.                              *)

SaSteps == {"connect", "sbom", "correlate"}
RawSteps == {"create", "scope", "license", "vulnfetch", "objname", "meta", "commit"}

\* lost or refused connections
SaTransient == {"sqlalchemy.InterfaceError", "sqlalchemy.OperationalError"}
DbapiTransient == {"psycopg2.OperationalError"}
Transient == SaTransient \cup DbapiTransient
\* statement and data errors
NonTransient ==
    {"sqlalchemy.ProgrammingError", "sqlalchemy.DataError",
     "psycopg2.ProgrammingError", "psycopg2.DataError"}

\* main.py:571, except (InterfaceError, OperationalError)
CaughtAll == Transient \cup NonTransient \cup {"KeyError"}
CaughtDriverToo == SaTransient \cup DbapiTransient
Caught == SaTransient

\* the error the data force on a step, "" when the data allow it to succeed:
\* a text parameter that is no integer (invalid input syntax), the empty
\* statement of main.py:307 (no identifier), and "in :deploy" bound to the
\* empty tuple of main.py:380 (rendered "in ()", a syntax error)
ForcedError(l) ==
    CASE l.pc = "scope" /\ l.appid # None /\ KeyOf(l.appid) = InvalidKey -> "psycopg2.DataError"
      [] l.pc = "scope" /\ l.envid # None /\ KeyOf(l.envid) = InvalidKey -> "psycopg2.DataError"
      [] l.pc = "sbom" /\ SbomShape(l) = "" -> "sqlalchemy.ProgrammingError"
      [] l.pc = "sbom" /\ SbomShape(l) \in {"comp", "app"} /\ KeyOf(Objid(l)) = InvalidKey
            -> "sqlalchemy.DataError"
      [] l.pc = "sbom" /\ SbomShape(l) = "env" /\ l.deploylist = <<>>
            -> "sqlalchemy.ProgrammingError"
      [] l.pc = "objname" /\ KeyOf(Str(Objid(l))) = InvalidKey -> "psycopg2.DataError"
      [] OTHER -> ""

\* whether the step issues a storage call at all
TouchesStorage(l) ==
    CASE l.pc = "scope" -> l.appid # None \/ l.envid # None
      [] l.pc \in SaSteps \cup RawSteps -> TRUE
      [] OTHER -> FALSE

\* what the step can raise inside the try of main.py:162
Raisable(l) ==
    (IF ForcedError(l) # "" THEN {ForcedError(l)} ELSE {})
    \cup (IF l.pc = "connect" THEN SaTransient
          ELSE IF l.pc \in SaSteps THEN SaTransient \cup {"sqlalchemy.ProgrammingError"}
          ELSE IF l.pc \in RawSteps /\ TouchesStorage(l)
               THEN DbapiTransient \cup {"psycopg2.ProgrammingError"}
          ELSE {})
    \cup (IF l.pc \in {"license", "vulnfetch"} THEN {"KeyError"} ELSE {})

-----------------------------------------------------------------------------
(* The handler export_sbom, main.py:135-1301, one action per step.  loc[p]  *)
(* holds the locals of the request process p is serving.                    *)

Req(c, a, e) == [compid |-> c, appid |-> a, envid |-> e]

\* A step that meets a fault of the storage, of the network or of the
\* dependency service (fault = TRUE) draws it from what the environment may
\* still inject; a step that meets none leaves the allowance alone.
Faulty(fault) ==
    IF fault
    THEN /\ faults.limited => faults.left > 0
         /\ faults' = IF faults.limited THEN [faults EXCEPT !.left = @ - 1] ELSE faults
    ELSE UNCHANGED faults

NoResponse == [status |-> 0]
\* main.py:1295, the report returned
Report(l) == [status |-> 200, objname |-> l.objname, comptable |-> l.comptable, tables |-> l.tables]
\* main.py:1301, HTTP 500 with the failure's description
ErrorResponse(l) == [status |-> 500, detail |-> l.exc]

\* a process that serves no request
Idle ==
    [pc |-> "idle", rid |-> 0, raw |-> Req(None, None, None),
     compid |-> None, appid |-> None, envid |-> None,
     attempt |-> 0, sleeps |-> 0, conn |-> 0, exc |-> "",
     complist |-> <<>>, deploylist |-> <<>>, df_pkgs |-> {}, df |-> <<>>,
     objname |-> <<>>, comptable |-> <<>>, tables |-> NoTables,
     lic |-> "", vul |-> "", gets |-> <<>>, reads |-> {}, injected |-> FALSE,
     response |-> NoResponse]

\* a process that was not started
Off == [Idle EXCEPT !.pc = "off"]

\* main.py:139-159: the locals as the first attempt finds them
Entered(rid, req) ==
    [Idle EXCEPT !.pc = "connect", !.rid = rid, !.raw = req,
                 !.compid = NormCompid(req.compid), !.appid = NormAppid(req.appid),
                 !.envid = NormEnvid(req.envid), !.attempt = 1]

\* a request arrives at process p
Start(p) ==
    /\ loc[p].pc \in {"idle", "responded"}
    /\ quota > 0
    /\ \E req \in traffic : loc' = [loc EXCEPT ![p] = Entered(nreq + 1, req)]
    /\ nreq' = nreq + 1
    /\ quota' = quota - 1
    /\ UNCHANGED <<db, traffic, faults, no_of_retry, sessions, pool>>

\* The connections engine.connect() can hand process p (main.py:100, :163):
\* an idle connection of its own pool, else a new one.
Unopened == {c \in ConnIds : ~sessions[c].open}
CheckoutShared(p) ==
    IF \E c \in ConnIds : sessions[c].open
    THEN {c \in ConnIds : sessions[c].open} ELSE {Min(Unopened)}
Checkout(p) == IF pool[p] # {} THEN pool[p] ELSE {Min(Unopened)}

\* main.py:163, engine.connect().  pool_pre_ping replaces a pooled connection
\* that no longer answers by a new one.
Connect(p) ==
    /\ loc[p].pc = "connect"
    /\ \E c \in Checkout(p), alive \in BOOLEAN :
        /\ Faulty(sessions[c].open /\ ~alive)
        /\ sessions' = [sessions EXCEPT ![c] = IF @.open /\ alive THEN @ ELSE FreshSession]
        /\ pool' = [pool EXCEPT ![p] = @ \ {c}]
        /\ loc' = [loc EXCEPT ![p].conn = c, ![p].pc = "create"]
    /\ UNCHANGED <<db, traffic, quota, no_of_retry, nreq>>

\* main.py:167-194: CREATE TEMPORARY TABLE IF NOT EXISTS, twice, and commit
Create(p) ==
    /\ loc[p].pc = "create"
    /\ sessions' = [sessions EXCEPT ![loc[p].conn] = Commit([@ EXCEPT !.tmp = TRUE])]
    /\ loc' = [loc EXCEPT ![p].pc = "scope"]
    /\ UNCHANGED <<db, traffic, quota, faults, no_of_retry, nreq, pool>>

\* main.py:196-252
Scope(p) ==
    LET l == loc[p] IN
    /\ l.pc = "scope"
    /\ ForcedError(l) = ""
    /\ \E T \in RankedFirst(db.applist) :
        LET approws == IF l.appid # None
                       THEN ListOfSet(AppScopeRows(db, KeyOf(l.appid))) ELSE <<>>
            envrows == IF l.envid # None
                       THEN RowsInOrder(EnvScopeRows(db, KeyOf(l.envid), T)) ELSE <<>>
        IN loc' = [loc EXCEPT
                ![p].complist = Dedup(approws \o [i \in DOMAIN envrows |-> envrows[i][1]]),
                ![p].deploylist = [i \in DOMAIN envrows |-> envrows[i][2]],
                ![p].pc = IF CallsEnrichment(l) THEN "license" ELSE "sbom"]
    /\ UNCHANGED <<db, traffic, quota, faults, no_of_retry, nreq, sessions, pool>>

\* gets lists the calls of requests.get the attempt has issued so far, in
\* the order issued: "license" for main.py:262, "vulns" for main.py:290

\* a license call that is issued again after a failure
LicenseReissuedOnFailure(p) ==
    LET l == loc[p] IN
    /\ l.pc = "license"
    /\ \E resp \in Responses :
        LET rows == {SbomTuple(l.rid, r) : r \in LicenseRecords(resp, l)} IN
        /\ sessions' = [sessions EXCEPT ![l.conn] =
                IF resp = "data" THEN Commit([@ EXCEPT !.sbom = @ \cup rows]) ELSE @]
        /\ loc' = [loc EXCEPT ![p].pc = IF resp \in Failures THEN "license" ELSE "vulnfetch",
                              ![p].lic = resp, ![p].gets = Append(@, "license")]
        /\ Faulty(resp \in Failures)
    /\ UNCHANGED <<db, traffic, quota, no_of_retry, nreq, pool>>
\* a license call whose failure ends the enrichment of the attempt
LicenseFailureSkipsVulns(p) ==
    LET l == loc[p] IN
    /\ l.pc = "license"
    /\ \E resp \in Responses :
        LET rows == {SbomTuple(l.rid, r) : r \in LicenseRecords(resp, l)} IN
        /\ sessions' = [sessions EXCEPT ![l.conn] =
                IF resp = "data" THEN Commit([@ EXCEPT !.sbom = @ \cup rows]) ELSE @]
        /\ loc' = [loc EXCEPT ![p].pc = IF resp \in Failures THEN "sbom" ELSE "vulnfetch",
                              ![p].lic = resp, ![p].gets = Append(@, "license")]
        /\ Faulty(resp \in Failures)
    /\ UNCHANGED <<db, traffic, quota, no_of_retry, nreq, pool>>
\* main.py:254-279: the license call; its records go to dm_sbom and are committed
License(p) ==
    LET l == loc[p] IN
    /\ l.pc = "license"
    /\ \E resp \in Responses :
        LET rows == {SbomTuple(l.rid, r) : r \in LicenseRecords(resp, l)} IN
        /\ sessions' = [sessions EXCEPT ![l.conn] =
                IF resp = "data" THEN Commit([@ EXCEPT !.sbom = @ \cup rows]) ELSE @]
        /\ loc' = [loc EXCEPT ![p].pc = "vulnfetch", ![p].lic = resp,
                              ![p].gets = Append(@, "license")]
        /\ Faulty(resp \in Failures)
    /\ UNCHANGED <<db, traffic, quota, no_of_retry, nreq, pool>>

\* main.py:281-305: the vulnerability call; its records go to dm_vulns, uncommitted
VulnFetch(p) ==
    LET l == loc[p] IN
    /\ l.pc = "vulnfetch"
    /\ \E resp \in Responses :
        LET rows == {VulnTuple(l.rid, r) : r \in VulnRecords(resp, l)} IN
        /\ sessions' = [sessions EXCEPT ![l.conn].uvulns = @ \cup rows]
        /\ loc' = [loc EXCEPT ![p].pc = "sbom", ![p].vul = resp,
                              ![p].gets = Append(@, "vulns")]
        /\ Faulty(resp \in Failures)
    /\ UNCHANGED <<db, traffic, quota, no_of_retry, nreq, pool>>


\* an exit that keeps the connection checked out
KeepCheckedOut(p) ==
    /\ sessions' = [sessions EXCEPT ![loc[p].conn] = Rollback(@)]
    /\ pool' = pool
\* leaving the with block of main.py:163: the connection goes back to the
\* pool, which rolls back what was not committed; the temporary tables stay
Release(p) ==
    /\ sessions' = [sessions EXCEPT ![loc[p].conn] = Rollback(@)]
    /\ pool' = [pool EXCEPT ![p] = @ \cup {loc[p].conn}]
\* the same with the commit of main.py:568 before it
CommitAndRelease(p) ==
    /\ sessions' = [sessions EXCEPT ![loc[p].conn] = Rollback(Commit(@))]
    /\ pool' = [pool EXCEPT ![p] = @ \cup {loc[p].conn}]
\* a connection found broken when it is returned is closed, not pooled
Discard(p) ==
    /\ sessions' = [sessions EXCEPT ![loc[p].conn] = Closed]
    /\ pool' = pool

\* main.py:376-382, pandas.read_sql of the SBOM statement.  df_pkgs holds the
\* rows read; the statement orders nothing, and the order they came in is
\* drawn where it first matters, in the merge.
Sbom(p) ==
    LET l == loc[p]
        env == l.envid # None
        ll == IF env THEN [l EXCEPT !.deploylist = Dedup(l.deploylist)] ELSE l
    IN
    /\ l.pc = "sbom"
    /\ ForcedError(l) = ""
    /\ LET df == SbomResult(db, sessions[l.conn], ll) IN
        loc' = [loc EXCEPT ![p] = [ll EXCEPT
                !.df_pkgs = df,
                !.reads = @ \cup {b.by : b \in SbomStagedRead(db, sessions[l.conn], ll)},
                !.pc = IF Cardinality(df) > 0 THEN "correlate" ELSE "objname"]]
    /\ UNCHANGED <<db, traffic, quota, faults, no_of_retry, nreq, sessions, pool>>

\* main.py:384-426: the vulnerability query, the merge, the sort, the tables.
\* Nothing reads df_pkgs after the merge; it is not kept.
Correlate(p) ==
    LET l == loc[p]
        env == l.envid # None
    IN
    /\ l.pc = "correlate"
    /\ \E pkgs \in Enumerations(l.df_pkgs),
          df_vulns \in Enumerations(VulnResult(db, sessions[l.conn], l.df_pkgs)) :
        LET df == SortValues(Merge(pkgs, df_vulns), env) IN
        loc' = [loc EXCEPT
                ![p].df = df,
                ![p].tables = Tables(df, env),
                ![p].reads = @ \cup {v.by : v \in VulnStagedRead(sessions[l.conn], l.df_pkgs)},
                ![p].df_pkgs = {},
                ![p].pc = "objname"]
    /\ UNCHANGED <<db, traffic, quota, faults, no_of_retry, nreq, sessions, pool>>

\* main.py:433-439, 463-468, 496-503: the object's name.  Without compid and
\* appid sqlstmt is "" (main.py:503), so main.py:505-568 is skipped and the
\* with block ends here.
Objname(p) ==
    LET l == loc[p]
        rows == ObjnameRows(db, l)
        last == l.compid = None /\ l.appid = None
    IN
    /\ l.pc = "objname"
    /\ ForcedError(l) = ""
    /\ loc' = [loc EXCEPT
            ![p].objname = IF rows = {} THEN @ ELSE CHOOSE r \in rows : TRUE,
            ![p].pc = IF last THEN "render" ELSE "meta",
            ![p].conn = IF last THEN 0 ELSE @]
    /\ IF last THEN Release(p) ELSE UNCHANGED <<sessions, pool>>
    /\ UNCHANGED <<db, traffic, quota, faults, no_of_retry, nreq>>

\* main.py:505-565: the metadata rows, one summary appended per row
Meta(p) ==
    LET l == loc[p] IN
    /\ l.pc = "meta"
    /\ \E rows \in Enumerations(MetaRows(db, l)) :
        loc' = [loc EXCEPT
                ![p].comptable = @ \o [i \in DOMAIN rows |-> CompSummary(rows[i])],
                ![p].pc = "commit"]
    /\ UNCHANGED <<db, traffic, quota, faults, no_of_retry, nreq, sessions, pool>>

\* main.py:567-569: cursor.close(), conn.commit(), break; the with block ends
CommitStep(p) ==
    /\ loc[p].pc = "commit"
    /\ CommitAndRelease(p)
    /\ loc' = [loc EXCEPT ![p].pc = "render", ![p].conn = 0]
    /\ UNCHANGED <<db, traffic, quota, faults, no_of_retry, nreq>>

\* main.py:582-1295: the page is built and returned
Render(p) ==
    /\ loc[p].pc = "render"
    /\ loc' = [loc EXCEPT ![p].pc = "responded", ![p].response = Report(loc[p]),
                          ![p].df = <<>>]
    /\ UNCHANGED <<db, traffic, quota, faults, no_of_retry, nreq, sessions, pool>>

\* The locals an exception leaves behind.  complist, deploylist and df_pkgs
\* are assigned again (main.py:196-197, :376) before a later attempt reads
\* them, and no response shows them: they are not kept.
Unwound(l) ==
    [l EXCEPT !.conn = 0, !.complist = <<>>, !.deploylist = <<>>, !.df_pkgs = {},
              !.df = <<>>, !.lic = "", !.vul = "", !.gets = <<>>]

\* A step raises inside the try of main.py:162.  The exception leaves the
\* with block first, which gives the connection back (or closes it when it
\* is broken); a failed engine.connect() has no connection to give back.
\* An exception the data does not force is a fault of the storage or of the
\* network.
Raise(p) ==
    LET l == loc[p] IN
    /\ l.pc \in SaSteps \cup RawSteps
    /\ \E e \in Raisable(l), broken \in BOOLEAN :
        /\ loc' = [loc EXCEPT ![p] = [Unwound(l) EXCEPT
                        !.exc = e, !.pc = "except", !.injected = @ \/ e # ForcedError(l)]]
        /\ IF l.pc = "connect" THEN UNCHANGED <<sessions, pool>>
           ELSE IF broken THEN Discard(p) ELSE Release(p)
        /\ Faulty(e # ForcedError(l))
    /\ UNCHANGED <<db, traffic, quota, no_of_retry, nreq>>

\* main.py:571-572: the exception is retried when the inner except clause
\* catches it and attempts are left
RetryAlways(l) == l.attempt < no_of_retry
RetryPastBound(l) == l.exc \in Caught /\ l.attempt <= no_of_retry
Retries(l) == l.exc \in Caught /\ l.attempt < no_of_retry

\* main.py:571-580 and 1297-1301: sleep and go round again, or re-raise into
\* the outer handler, which answers HTTP 500
Except(p) ==
    LET l == loc[p] IN
    /\ l.pc = "except"
    /\ loc' = [loc EXCEPT ![p] =
            IF Retries(l)
            THEN [l EXCEPT !.pc = "sleeping", !.sleeps = @ + 1]
            ELSE [l EXCEPT !.pc = "responded", !.response = ErrorResponse(l)]]
    /\ UNCHANGED <<db, traffic, quota, faults, no_of_retry, nreq, sessions, pool>>

\* main.py:576-578: sleep(0.2) returns, attempt += 1, continue
Wake(p) ==
    /\ loc[p].pc = "sleeping"
    /\ loc' = [loc EXCEPT ![p].pc = "connect", ![p].attempt = @ + 1, ![p].exc = ""]
    /\ UNCHANGED <<db, traffic, quota, faults, no_of_retry, nreq, sessions, pool>>

Step(p) ==
    \/ Connect(p) \/ Create(p) \/ Scope(p) \/ License(p) \/ VulnFetch(p)
    \/ Sbom(p) \/ Correlate(p) \/ Objname(p) \/ Meta(p) \/ CommitStep(p)
    \/ Render(p) \/ Raise(p) \/ Except(p) \/ Wake(p)

Next == \E p \in Procs : Start(p) \/ Step(p)

-----------------------------------------------------------------------------
(* Initial states and specifications *)

\* raw identifiers as clients send them
co1 == <<"c", "o", "1">>
cv9 == <<"c", "v", "9">>
ap1 == <<"a", "p", "1">>
av2 == <<"a", "v", "2">>
en7 == <<"e", "n", "7">>
en8 == <<"e", "n", "8">>

\* the requests of the main specification: no identifier; a component with
\* persisted and enrichment data; an unknown component; an application; an
\* application whose only component is retired; an environment with
\* deployments; an environment without
MainTraffic ==
    {Req(None, None, None), Req(co1, None, None), Req(cv9, None, None),
     Req(None, ap1, None), Req(None, av2, None),
     Req(None, None, en7), Req(None, None, en8)}

\* the state after the module is imported (main.py:47-100) by the processes
\* `procs`: every engine's pool is empty and no session is open
InitOf(procs, dbs, sent, count, allowance) ==
    /\ db \in dbs
    /\ traffic = sent
    /\ quota = count
    /\ faults = allowance
    /\ no_of_retry = DB_CONN_RETRY
    /\ nreq = 0
    /\ sessions = [c \in ConnIds |-> Closed]
    /\ pool = [p \in Procs |-> {}]
    /\ loc = [p \in Procs |-> IF p \in procs THEN Idle ELSE Off]

\* the environment injects faults without limit, or at most n of them
AnyFaults == [limited |-> FALSE, left |-> 0]
AtMostFaults(n) == [limited |-> TRUE, left |-> n]

\* one server process, the populated database
Init == InitOf({1}, {ScenarioDB}, MainTraffic, MaxRequests, AnyFaults)
Spec == Init /\ [][Next]_vars

\* the requests of MainTraffic that find no package rows
LightTraffic ==
    {Req(None, None, None), Req(cv9, None, None), Req(None, av2, None), Req(None, None, en8)}
\* one request per behaviour, and a handler that is not suspended for ever:
\* it runs in one thread that nothing else of the model can hold up
InitFair == InitOf({1}, {ScenarioDB}, LightTraffic, 1, AnyFaults)
FairSpec == InitFair /\ [][Next]_vars /\ \A p \in Procs : WF_vars(Step(p))

\* identifiers with the prefix of their own kind, of another kind, twice, cut
\* short and without one
coco1 == <<"c", "o", "c", "o", "1">>
NormTraffic ==
    {Req(c, None, None) : c \in {co1, cv9, ap1, en7, coco1, <<"c">>, <<"1">>, <<>>}}
    \cup {Req(None, a, None) : a \in {ap1, av2, co1, en7, <<"a", "p">>, <<"2">>}}
    \cup {Req(None, None, e) : e \in {en7, en8, co1, av2, <<"e", "n", "e", "n", "7">>, <<"7">>}}
    \cup {Req(None, None, None), Req(ap1, co1, en7), Req(co1, ap1, en7)}
InitNorm == InitOf({1}, {ScenarioDB}, NormTraffic, 1, AnyFaults)
SpecNorm == InitNorm /\ [][Next]_vars

\* two server processes, each with its own engine, serving requests for
\* the same component
co2 == <<"c", "o", "2">>
InitConc == InitOf({1, 2}, {ScenarioDB}, {Req(co2, None, None)}, 2, AtMostFaults(MaxFaults))
SpecConc == InitConc /\ [][Next]_vars

\* The populated database with more of dm.dm_vulns for lodash 4.0, the
\* package of component 2: a copy of the advisory the service returns, with
\* another package URL and risk level; a second advisory of the same risk
\* level; and an advisory of another package whose package URL is the empty
\* string, the value main.py:270 stages for every package.
CopiesDB ==
    [ScenarioDB EXCEPT
        !.vulns = @ \cup {Vuln(OSV3, "lodash", "4.0", NULL, "Medium"),
                          Vuln(GHSA1, "lodash", "4.0", NULL, "Medium"),
                          Vuln(GHSA2, "left-pad", "1.0.0", "", "High")}]
\* one server process, one request for component 2
InitCopies == InitOf({1}, {CopiesDB}, {Req(co2, None, None)}, 1, AnyFaults)
SpecCopies == InitCopies /\ [][Next]_vars

\* Databases for environment resolution: row i of dm.dm_applist belongs to
\* lineage (i + 1) \div 2, was created at time 1 or 2, and names its own
\* deployment, which is either a placeholder with a non-positive key or a
\* real one, in environment 7 or 8.  One more row, of lineage 2, is deployed
\* to environment 7 in every database.  Every deployment holds component 2,
\* the last one component 3 as well.
ApplistChoices ==
    [1..MaxApplist -> {<<created, k>> : created \in {1, 2}, k \in 1..3}]
DeployChoice(i, k) ==
    CASE k = 1 -> Deployment(0 - i, 7, 1)
      [] k = 2 -> Deployment(9 + i, 7, 1)
      [] k = 3 -> Deployment(9 + i, 8, 1)
EnvDB(f) ==
    [ScenarioDB EXCEPT
        !.applist = {AppRow(i, (i + 1) \div 2, f[i][1], DeployChoice(i, f[i][2]).deploymentid) :
                        i \in 1..MaxApplist}
                    \cup {AppRow(9, 2, 1, 19)},
        !.deployment = {DeployChoice(i, f[i][2]) : i \in 1..MaxApplist}
                       \cup {Deployment(19, 7, 1)},
        !.deploymentcomps = {[deploymentid |-> k, compid |-> 2] :
                                k \in {DeployChoice(i, f[i][2]).deploymentid : i \in 1..MaxApplist}
                                      \cup {19}}
                            \cup {[deploymentid |-> 19, compid |-> 3]},
        !.applicationcomponent = {[appid |-> 1, compid |-> 2]}]
EnvDBs == {EnvDB(f) : f \in ApplistChoices}
InitEnv == InitOf({1}, EnvDBs, {Req(None, None, en7), Req(cv9, None, None)}, 1,
                  AtMostFaults(MaxFaults))
SpecEnv == InitEnv /\ [][Next]_vars

-----------------------------------------------------------------------------
(* Retry, main.py:150-163 and 571-580 *)

Responded(l) == l.pc = "responded"
Reported(l) == Responded(l) /\ l.response.status = 200
Failed(l) == Responded(l) /\ l.response.status = 500
\* the attempts of a finished request that ended in an exception
FailedAttempts(l) == IF Reported(l) THEN l.attempt - 1 ELSE l.attempt
\* every exception the request met was a lost or refused connection: the
\* ones retried are, being caught, and the last one is by its class
OnlyTransientFailures(l) == Reported(l) \/ (Failed(l) /\ l.response.detail \in Transient)

\* C1: a request whose storage fails transiently on its first k attempts and
\* succeeds afterwards returns a report when k is below the retry bound and
\* an error when k reaches it (bound 3: report for k <= 2, error for k >= 3;
\* bound 2: error for k = 2).
RetryUpToBound ==
    \A p \in Procs :
        OnlyTransientFailures(loc[p])
            => (Reported(loc[p]) <=> FailedAttempts(loc[p]) < no_of_retry)

\* C2: a query or schema error raised at any step ends the request with an
\* error response in the attempt it was raised in: the handler neither
\* sleeps nor starts another attempt, whatever the attempt counter is.
NonTransientIsFatal ==
    [][\A p \in Procs :
        (loc[p].pc = "except" /\ loc[p].exc \in NonTransient /\ loc'[p] # loc[p])
            => /\ Failed(loc'[p])
               /\ loc'[p].response.detail = loc[p].exc
               /\ loc'[p].attempt = loc[p].attempt
               /\ loc'[p].sleeps = loc[p].sleeps]_vars
\* a second attempt, entered after a retried failure, ended by a statement error
NonTransientAfterRetry ==
    \E p \in Procs :
        /\ Failed(loc[p]) /\ loc[p].response.detail \in NonTransient
        /\ loc[p].attempt = 2 /\ loc[p].sleeps = 1
        /\ no_of_retry > loc[p].attempt

\* C3: every request terminates.  The pipeline is attempted at most
\* DB_CONN_RETRY times, the attempt counter only increases, the handler
\* sleeps only between a failed attempt and the next one (at most
\* DB_CONN_RETRY - 1 times, never after the last failed attempt), and the
\* request ends with a report or an error.
Running(l) == l.pc \notin {"off", "idle"}
AttemptsBounded(l) ==
    Running(l) =>
        /\ l.attempt \in 1..DB_CONN_RETRY
        /\ l.sleeps <= DB_CONN_RETRY - 1
        /\ l.sleeps = IF l.pc = "sleeping" THEN l.attempt ELSE l.attempt - 1
        /\ l.pc = "sleeping" => l.exc \in Caught
        /\ Responded(l) => l.response.status \in {200, 500}
AttemptsOnlyGrow ==
    \A p \in Procs :
        loc'[p].rid = loc[p].rid =>
            /\ loc'[p].attempt >= loc[p].attempt
            /\ loc'[p].sleeps >= loc[p].sleeps
            /\ loc'[p].sleeps > loc[p].sleeps => loc[p].pc = "except" /\ loc'[p].pc = "sleeping"
            /\ loc'[p].attempt > loc[p].attempt => loc[p].pc = "sleeping" /\ loc'[p].pc = "connect"
RequestsTerminate ==
    /\ [](\A p \in Procs : AttemptsBounded(loc[p]))
    /\ [][AttemptsOnlyGrow]_vars
    /\ \A p \in Procs : Running(loc[p]) ~> Responded(loc[p])
\* the retries exhausted: three attempts, two sleeps, an error
RetriesExhausted ==
    \E p \in Procs :
        /\ Failed(loc[p]) /\ loc[p].response.detail \in Caught
        /\ loc[p].attempt = DB_CONN_RETRY /\ loc[p].sleeps = DB_CONN_RETRY - 1

-----------------------------------------------------------------------------
(* Staged rows and connections, main.py:100, 162-194, 253-305 *)

\* C4: whatever requests the process served before, the staged rows the SBOM
\* and vulnerability queries of a request read were inserted by that same
\* request; rows an earlier, finished request staged are never read, also
\* when the request is handed the same connection.
StagedRowsAreTheRequestsOwn ==
    \A p \in Procs : loc[p].reads \subseteq {loc[p].rid}

\* C5: two requests running at the same time hold different connections,
\* the rows one of them staged are on connections of its own process only,
\* and neither reads a staged row the other inserted.
Holding(l) == l.conn # 0
StagedBy(c) == {r.by : r \in sessions[c].sbom \cup sessions[c].vulns \cup sessions[c].uvulns}
ConcurrentRequestsIsolated ==
    \A p, q \in Procs :
        (p # q /\ Running(loc[p]) /\ Running(loc[q])) =>
            /\ Holding(loc[p]) => loc[p].conn # loc[q].conn
            /\ loc[q].rid \notin loc[p].reads
            /\ \A c \in ConnIds :
                loc[p].rid \in StagedBy(c) => c = loc[p].conn \/ c \in pool[p]
\* both processes in the middle of a request, each having read rows it staged
BothReadTheirOwn ==
    /\ \A p \in Procs : Holding(loc[p]) /\ loc[p].rid \in loc[p].reads
                        /\ loc[p].rid \in StagedBy(loc[p].conn)
    /\ loc[1].rid # loc[2].rid

\* the rows of the five tables, and the rows persisted data alone give them
TableRows(tables) == [k \in DOMAIN tables |-> Range(tables[k])]
PersistedTables(d, l) ==
    LET df == SbomResult(d, FreshSession, l)
        env == l.envid # None
        pkgs == CHOOSE rows \in Enumerations(df) : TRUE
        df_vulns == CHOOSE rows \in Enumerations(VulnResult(d, FreshSession, df)) : TRUE
    IN TableRows(Tables(Merge(pkgs, df_vulns), env))

\* C6: when both enrichment calls of the answering attempt failed with a
\* network or HTTP error, the request still returns a report, and the
\* report's tables hold what the persisted dependency and vulnerability
\* data give, nothing else.
EnrichmentFailureLeavesPersistedData ==
    \A p \in Procs :
        (Responded(loc[p]) /\ ~loc[p].injected
         /\ loc[p].lic \in Failures /\ loc[p].vul \in Failures) =>
            /\ Reported(loc[p])
            /\ TableRows(loc[p].response.tables) = PersistedTables(db, loc[p])

\* C7: a request without any identifier makes no enrichment call and
\* returns a report with empty object name and five empty tables.
NoIdentifierGivesEmptyReport ==
    \A p \in Procs :
        (Responded(loc[p]) /\ ~loc[p].injected /\ loc[p].raw = Req(None, None, None)) =>
            /\ Reported(loc[p])
            /\ loc[p].response.objname = <<>>
            /\ loc[p].response.tables = NoTables
            /\ loc[p].lic = "" /\ loc[p].vul = ""

\* a well-formed identifier that resolves to no row: an unknown component
\* key, an application without active components, an environment without a
\* qualifying deployment
ResolvesToNothing(d, l) ==
    IF l.compid # None
    THEN KeyOf(l.compid) # InvalidKey /\ \A c \in d.component : c.id # KeyOf(l.compid)
    ELSE IF l.appid # None
    THEN KeyOf(l.appid) # InvalidKey /\ AppScopeRows(d, KeyOf(l.appid)) = {}
    ELSE /\ l.envid # None /\ KeyOf(l.envid) # InvalidKey
         /\ \A T \in RankedFirst(d.applist) : EnvScopeRows(d, KeyOf(l.envid), T) = {}

\* C8: an identifier of any of the three kinds that resolves to zero rows
\* gives a report with empty object name and empty tables, never an error,
\* also when the deployment keys resolved for an environment are none.
ZeroRowsGiveEmptyReport ==
    \A p \in Procs :
        (Responded(loc[p]) /\ ~loc[p].injected /\ ResolvesToNothing(db, loc[p])) =>
            /\ Reported(loc[p])
            /\ loc[p].response.objname = <<>>
            /\ loc[p].response.tables = NoTables

-----------------------------------------------------------------------------
(* Normalisation and environment resolution, main.py:139-146, 207-250 *)

\* what the normalisation of a raw identifier must give, said on the
\* characters: without its first two when they are a prefix of its own
\* kind, itself otherwise
StripsOwnPrefix(raw, norm, prefixes) ==
    IF raw = None THEN norm = None
    ELSE IF Len(raw) >= 2 /\ <<raw[1], raw[2]>> \in prefixes
    THEN /\ Len(norm) = Len(raw) - 2
         /\ \A i \in 1..Len(norm) : norm[i] = raw[i + 2]
    ELSE norm = raw

\* C9: each identifier loses exactly its first two characters when they are
\* a prefix of its own kind ("cv", "co" for compid; "av", "ap" for appid;
\* "en" for envid) and is unchanged otherwise: a prefix of another kind
\* stays, one prefix at most goes, an absent identifier stays absent.
NormalizationStripsOwnPrefix ==
    \A p \in Procs :
        Running(loc[p]) =>
            /\ StripsOwnPrefix(loc[p].raw.compid, loc[p].compid, {<<"c", "v">>, <<"c", "o">>})
            /\ StripsOwnPrefix(loc[p].raw.appid, loc[p].appid, {<<"a", "v">>, <<"a", "p">>})
            /\ StripsOwnPrefix(loc[p].raw.envid, loc[p].envid, {<<"e", "n">>})
\* a doubled prefix lost once
OnePrefixStripped ==
    \E p \in Procs : Running(loc[p]) /\ loc[p].raw.compid = coco1 /\ loc[p].compid = co1

\* the dm.dm_applist rows that name deployment k
RowsNaming(d, k) == {a \in d.applist : a.deploymentid = k}
\* the deployment keys an environment request holds once Scope has run
Resolved(l) == l.envid # None /\ l.pc \in {"license", "vulnfetch", "sbom", "correlate", "objname"}

\* C10: the deployment keys resolved for an environment are positive, belong
\* to deployments of that environment, each is named by a row created no
\* earlier than any other row of its lineage, and no two keys come from the
\* same lineage.
EnvironmentDeploymentsResolved ==
    \A p \in Procs :
        Resolved(loc[p]) =>
            \A k \in Range(loc[p].deploylist) :
                /\ k > 0
                /\ \E b \in db.deployment : b.deploymentid = k /\ b.envid = KeyOf(loc[p].envid)
                /\ \E a \in RowsNaming(db, k) :
                    \A o \in db.applist : o.parentid = a.parentid => o.created <= a.created
                /\ \A k2 \in Range(loc[p].deploylist) :
                    (\E a \in RowsNaming(db, k), a2 \in RowsNaming(db, k2) :
                        a.parentid = a2.parentid) => k2 = k
\* two lineages resolved at once, one of them through its newer row while
\* its older row is deployed to the environment as well
TwoLineagesResolved ==
    \E p \in Procs :
        /\ Resolved(loc[p])
        /\ Cardinality(Range(loc[p].deploylist)) = 2
        /\ \E a, o \in db.applist :
            /\ a.deploymentid \in Range(loc[p].deploylist)
            /\ o.parentid = a.parentid /\ o.created < a.created /\ o.deploymentid > 0
            /\ \E b \in db.deployment :
                b.deploymentid = o.deploymentid /\ b.envid = KeyOf(loc[p].envid)

-----------------------------------------------------------------------------
(* The resolved scope, main.py:196-252 and 377-380 *)

NoDuplicates(xs) == \A i, j \in DOMAIN xs : xs[i] = xs[j] => i = j
\* the attempt has resolved its scope; it has run its SBOM query
Scoped(l) == l.pc \in {"license", "vulnfetch", "sbom", "correlate", "objname", "meta", "commit"}
Queried(l) == l.pc \in {"correlate", "objname", "meta", "commit"}

\* C11: the scope is a set.  A component key the scope queries return,
\* through however many deployments, is once in the list the enrichment
\* calls use; a deployment key is once in the keys the environment SBOM query
\* is given.
ScopeHasSetSemantics ==
    \A p \in Procs :
        LET l == loc[p] IN
        /\ Scoped(l) =>
            /\ NoDuplicates(l.complist)
            /\ l.appid # None => AppScopeRows(db, KeyOf(l.appid)) \subseteq Range(l.complist)
            /\ l.envid # None =>
                \A b \in db.deploymentcomps :
                    b.deploymentid \in Range(l.deploylist) => b.compid \in Range(l.complist)
        /\ (Queried(l) /\ l.envid # None) => NoDuplicates(l.deploylist)
\* a component held by both resolved deployments, one of which holds two
ComponentThroughTwoDeployments ==
    \E p \in Procs :
        /\ Queried(loc[p]) /\ loc[p].envid # None
        /\ Len(loc[p].deploylist) = 2
        /\ \E c \in Range(loc[p].complist) :
            \A k \in Range(loc[p].deploylist) :
                [deploymentid |-> k, compid |-> c] \in db.deploymentcomps
        /\ \E k \in Range(loc[p].deploylist) :
            Cardinality({b \in db.deploymentcomps : b.deploymentid = k}) = 2

-----------------------------------------------------------------------------
(* Correlation, sort and partition, main.py:384-426 *)

\* the attempt has just built its tables from a non-empty SBOM result, and
\* still holds the connection the two queries ran on
Correlated(l) ==
    l.pc = "objname" /\ l.conn # 0 /\ SbomResult(db, sessions[l.conn], l) # {}
PackageRecords(l) == SbomResult(db, sessions[l.conn], l)
VulnRecordsRead(l) == VulnResult(db, sessions[l.conn], PackageRecords(l))
\* the vulnerabilities equal to record r on (packagename, packageversion)
MatchesOf(l, r) ==
    {v \in VulnRecordsRead(l) :
        v.packagename = r.packagename /\ v.packageversion = r.packageversion}
\* the rows record r owes the final table: one per match, one if none
RowsOwed(l, r) ==
    IF MatchesOf(l, r) = {} THEN {<<r, Displayed(Unpaired(r), l.envid # None)>>}
    ELSE {<<r, v, Displayed(Paired(r, v), l.envid # None)>> : v \in MatchesOf(l, r)}
AllRowsOwed(l) == UNION {RowsOwed(l, r) : r \in PackageRecords(l)}
\* the displayed columns that hold text read from storage
TextColumns == {"Package", "Version", "License", "Description", "Component"}
FinalTable(t) == t.critical \o t.high \o t.medium \o t.low \o t.good
Occurrences(xs, d) == Cardinality({i \in DOMAIN xs : xs[i] = d})

\* C12: every record of the SBOM query is in the final table; a record
\* without a vulnerability on its (packagename, packageversion) gives one
\* row, in the table of rows without risk, CVE and description empty, no
\* cell a null; a record with matches gives one row per match.
CorrelationComplete ==
    \A p \in Procs :
        LET l == loc[p]
            final == FinalTable(l.tables)
        IN Correlated(l) =>
            /\ \A d \in Range(final) :
                Occurrences(final, d)
                    = Cardinality({o \in AllRowsOwed(l) : o[Len(o)] = d})
            /\ \A o \in AllRowsOwed(l) : o[Len(o)] \in Range(final)
            /\ \A r \in PackageRecords(l) :
                MatchesOf(l, r) = {} =>
                    \E i \in DOMAIN l.tables.good :
                        LET row == l.tables.good[i] IN
                        /\ row.Package = r.packagename /\ row.Version = r.packageversion
                        /\ row.Component = r.compname
                        /\ row.CVE = <<>> /\ row.Description = ""
                        /\ row.License = (IF r.name = NULL THEN "" ELSE r.name)
            /\ \A i \in DOMAIN final : \A c \in TextColumns : final[i][c] # NULL
\* a package without a vulnerability and without a license name, next to
\* one with a vulnerability
UnmatchedPackageShown ==
    \E p \in Procs :
        /\ Correlated(loc[p])
        /\ \E r \in PackageRecords(loc[p]) : MatchesOf(loc[p], r) = {} /\ r.name = NULL
        /\ \E r \in PackageRecords(loc[p]) : MatchesOf(loc[p], r) # {}

\* the precedence the report gives a risk level as stored: 1 for Critical
\* down to 4 for Low, 5 for no vulnerability or any other level
Precedence(risk) ==
    CASE risk = "Critical" -> 1
      [] risk = "High" -> 2
      [] risk = "Medium" -> 3
      [] risk = "Low" -> 4
      [] OTHER -> 5
\* the attempt has just sorted a non-empty table
Sorted(l) == l.pc = "objname" /\ l.df # <<>>

\* C13: in the sorted table a row of a higher-precedence category never
\* comes after a row of a lower one, whatever the other columns hold; rows
\* without a vulnerability or with a level outside the four come after all
\* Critical, High, Medium and Low rows.
SortedByRiskCategory ==
    \A p \in Procs :
        LET df == loc[p].df IN
        Sorted(loc[p]) =>
            \A i, j \in DOMAIN df :
                Precedence(df[i].RiskLevel) < Precedence(df[j].RiskLevel) => i < j
\* Critical and High rows come before a row without risk whose package name
\* sorts before theirs
RiskBeforeName ==
    \E p \in Procs :
        LET df == loc[p].df IN
        /\ Sorted(loc[p])
        /\ \E i, j, k \in DOMAIN df :
            /\ i < j /\ j < k
            /\ df[i].RiskLevel = "Critical" /\ df[j].RiskLevel = "High"
            /\ Precedence(df[k].RiskLevel) = 5
            /\ StrRank(df[k].Package) < StrRank(df[i].Package)

\* the rows of df with precedence k, as displayed, in df's order
RowsOfPrecedence(df, k, env) ==
    LET rows == SelectSeq(df, LAMBDA row : Precedence(row.RiskLevel) = k)
    IN [i \in DOMAIN rows |-> Displayed(rows[i], env)]

\* C14: the five tables partition the sorted table: each table holds the
\* rows of its own category and no other, in the order of the sort, so each
\* row of the sorted table is in exactly one table, once.
TablesPartitionSortedRows ==
    \A p \in Procs :
        LET l == loc[p]
            env == l.envid # None
        IN Sorted(l) =>
            /\ l.tables.critical = RowsOfPrecedence(l.df, 1, env)
            /\ l.tables.high = RowsOfPrecedence(l.df, 2, env)
            /\ l.tables.medium = RowsOfPrecedence(l.df, 3, env)
            /\ l.tables.low = RowsOfPrecedence(l.df, 4, env)
            /\ l.tables.good = RowsOfPrecedence(l.df, 5, env)
            /\ Len(FinalTable(l.tables)) = Len(l.df)
\* three tables are filled, two of them with several rows
SeveralTablesFilled ==
    \E p \in Procs :
        /\ Sorted(loc[p])
        /\ Len(loc[p].tables.critical) > 1 /\ Len(loc[p].tables.high) > 1
        /\ Len(loc[p].tables.good) > 0

-----------------------------------------------------------------------------
(* Outcomes, attempts and connections, main.py:148-166, 567-580, 1295-1301 *)

\* the report's parts as main.py:153-159 initialise them
NothingBuilt(l) == l.objname = <<>> /\ l.comptable = <<>> /\ l.tables = NoTables
\* the response is the report of the attempt that just ended, and no
\* exception is pending
ReportOfLastAttempt(l) == l.response = Report(l) /\ l.exc = ""
\* the response is an error that carries the failure's description only
ErrorOnly(l) ==
    /\ l.response = ErrorResponse(l) /\ l.exc # ""
    /\ DOMAIN l.response = {"status", "detail"}
\* a step of process p keeps the outcome: a finished attempt is answered by
\* its report, and a response is not replaced while its request is the
\* process's last
OutcomeKept(p) ==
    /\ loc[p].pc = "render" => Reported(loc'[p])
    /\ (Responded(loc[p]) /\ loc'[p].rid = loc[p].rid) => loc'[p] = loc[p]

\* C15: a request ends either with the report of one attempt, the
\* successful one, or with one error response carrying the failure's
\* description and no report content; every attempt starts with nothing
\* built, so no part of the report comes from a failed attempt; after a
\* successful attempt the report is returned, never an error.
ExactlyOneOutcome ==
    /\ [](\A p \in Procs :
            /\ Responded(loc[p]) => (ReportOfLastAttempt(loc[p]) \/ ErrorOnly(loc[p]))
            /\ ~(Reported(loc[p]) /\ Failed(loc[p]))
            /\ loc[p].pc \in {"sleeping", "connect"} => NothingBuilt(loc[p]))
    /\ [][\A p \in Procs : OutcomeKept(p)]_vars
\* a report with package tables and an ownership section, returned by the
\* second attempt
ReportAfterRetry ==
    \E p \in Procs :
        /\ Reported(loc[p]) /\ loc[p].attempt = 2
        /\ loc[p].response.tables # NoTables /\ loc[p].response.comptable # <<>>

\* C16: whichever storage step of an attempt fails with a transient
\* connectivity error, the request does not fail while fewer than 3 attempts
\* were made: the handler sleeps and starts a new attempt.  So a request
\* answered with the description of a transient error has made all of its
\* attempts.
TransientStepFailureRetried ==
    \A p \in Procs :
        (Failed(loc[p]) /\ loc[p].response.detail \in Transient)
            => loc[p].attempt = DB_CONN_RETRY

\* the staging tables of a request that runs once, without a failure, and
\* receives the enrichment responses l.lic and l.vul
StagedOnce(l) ==
    [FreshSession EXCEPT
        !.tmp = TRUE,
        !.sbom = {SbomTuple(l.rid, r) : r \in LicenseRecords(l.lic, l)},
        !.uvulns = {VulnTuple(l.rid, r) : r \in VulnRecords(l.vul, l)}]
\* the rows of the report of that request: one per package record and
\* matching vulnerability, one per record without a match
RowsOfSingleRun(l) ==
    LET pkgs == SbomResult(db, StagedOnce(l), l)
        found == VulnResult(db, StagedOnce(l), pkgs)
        matches(r) == {v \in found : v.packagename = r.packagename
                                        /\ v.packageversion = r.packageversion}
    IN UNION {IF matches(r) = {} THEN {<<r, Displayed(Unpaired(r), l.envid # None)>>}
              ELSE {<<r, v, Displayed(Paired(r, v), l.envid # None)>> : v \in matches(r)}
              : r \in pkgs}

\* C17: a request that succeeds on attempt 2 or 3 returns the report a
\* request without failure returns for the same stored data and the same
\* enrichment responses: the same rows, each as often, and so nothing a
\* failed attempt produced.
ReExecutionIdempotent ==
    \A p \in Procs :
        LET l == loc[p]
            final == FinalTable(l.response.tables)
        IN (Reported(l) /\ l.attempt > 1) =>
            /\ Len(final) = Cardinality(RowsOfSingleRun(l))
            /\ Range(final) = {o[Len(o)] : o \in RowsOfSingleRun(l)}

\* the connections checked out of the pools: open and in no pool
CheckedOut == {c \in ConnIds : sessions[c].open /\ \A p \in Procs : c \notin pool[p]}
\* the connections the handlers hold
Held == {loc[p].conn : p \in Procs} \ {0}
\* the positions inside the with block of main.py:163
InsideWith == {"create", "scope", "license", "vulnfetch", "sbom", "correlate",
               "objname", "meta", "commit"}

\* C18: the connection of an attempt is released on every way out of the
\* attempt: no connection is checked out that no handler holds, a handler
\* holds one connection inside an attempt and none outside, in particular
\* none while it handles an exception, sleeps, renders or has responded.
ConnectionReleasedOnEveryExit ==
    /\ CheckedOut = Held
    /\ \A p \in Procs : (loc[p].conn # 0) <=> (loc[p].pc \in InsideWith)
\* a transient failure gave the connection back and the handler sleeps
SleepingWithoutConnection ==
    \E p \in Procs :
        /\ loc[p].pc = "sleeping" /\ loc[p].conn = 0
        /\ pool[p] # {} /\ CheckedOut = {}

-----------------------------------------------------------------------------
(* Enrichment calls, main.py:253-305 *)

\* the attempt is past both enrichment blocks and inside the with block
Enriched(l) == l.pc \in {"sbom", "correlate", "objname", "meta", "commit"}
\* the rows the two calls stage from a good response
LicenseStaged(l) == {SbomTuple(l.rid, r) : r \in LicenseRecords("data", l)}
VulnsStaged(l) == {VulnTuple(l.rid, r) : r \in VulnRecords("data", l)}

\* C19: an attempt of a request with an identifier issues two enrichment
\* calls, the license call and then the vulnerability call; when the
\* license call fails, the vulnerability call is still issued and its
\* records are staged; when the vulnerability call fails, the rows the
\* license call staged stay staged.
EnrichmentCallsIndependent ==
    \A p \in Procs :
        LET l == loc[p] IN
        /\ l.pc = "vulnfetch" => l.gets = <<"license">>
        /\ Enriched(l) =>
                l.gets = (IF CallsEnrichment(l) THEN <<"license", "vulns">> ELSE <<>>)
        /\ (l.pc = "sbom" /\ l.lic \in Failures /\ l.vul = "data")
                => VulnsStaged(l) \subseteq sessions[l.conn].uvulns
        /\ (l.pc = "sbom" /\ l.lic = "data" /\ l.vul \in Failures)
                => LicenseStaged(l) \subseteq sessions[l.conn].sbom
\* the license call failed and the vulnerability call staged a record
VulnsStagedAfterLicenseFailure ==
    \E p \in Procs :
        /\ loc[p].pc = "sbom" /\ loc[p].lic \in Failures /\ loc[p].vul = "data"
        /\ VulnsStaged(loc[p]) # {}
        /\ VulnsStaged(loc[p]) \subseteq sessions[loc[p].conn].uvulns

\* xs is an initial part of ys
PrefixOf(xs, ys) == Len(xs) <= Len(ys) /\ xs = SubSeq(ys, 1, Len(xs))
\* a step of process p after which an enrichment call has failed: the
\* attempt goes on to what follows the call, which is not issued again
FailedCallPassedOver(p) ==
    /\ (loc[p].pc = "license" /\ loc'[p].lic \in Failures)
            => /\ loc'[p].pc = "vulnfetch" /\ loc'[p].gets = <<"license">>
               /\ loc'[p].attempt = loc[p].attempt
    /\ (loc[p].pc = "vulnfetch" /\ loc'[p].vul \in Failures)
            => /\ loc'[p].pc = "sbom" /\ loc'[p].gets = <<"license", "vulns">>
               /\ loc'[p].attempt = loc[p].attempt
\* a step of process p that starts another attempt of the same request
\* follows a sleep, which follows a storage exception of the classes retried
AttemptsStartFromStorageFailure(p) ==
    (loc'[p].rid = loc[p].rid /\ loc'[p].attempt # loc[p].attempt)
        => /\ loc[p].pc = "sleeping" /\ loc[p].exc \in Caught
           /\ loc'[p].attempt = loc[p].attempt + 1 /\ loc'[p].gets = <<>>

\* C20: enrichment calls are not retried.  A failed call is not issued again
\* and starts no attempt; an attempt issues each call at most once, license
\* before vulnerabilities, and a request makes at most 3 attempts, so at
\* most 3 calls of each kind and 6 in all; a request answered by its first
\* attempt has issued each call exactly once.
EnrichmentNotRetried ==
    /\ [](\A p \in Procs :
            /\ PrefixOf(loc[p].gets, <<"license", "vulns">>)
            /\ loc[p].attempt <= DB_CONN_RETRY
            /\ (Reported(loc[p]) /\ loc[p].attempt = 1)
                    => loc[p].gets = <<"license", "vulns">>)
    /\ [][\A p \in Procs :
            FailedCallPassedOver(p) /\ AttemptsStartFromStorageFailure(p)]_vars
\* both calls failed and the first attempt returned the report
ReportAfterBothCallsFailed ==
    \E p \in Procs :
        /\ Reported(loc[p]) /\ loc[p].attempt = 1
        /\ loc[p].lic \in Failures /\ loc[p].vul \in Failures
        /\ loc[p].gets = <<"license", "vulns">>

-----------------------------------------------------------------------------
(* Scope of the queries, main.py:198-252, 307-375 *)

\* the dm_applist rows whose deployment has a positive key and belongs to
\* environment envkey
DeployedTo(d, envkey) ==
    {a \in d.applist :
        /\ a.deploymentid > 0
        /\ \E b \in d.deployment : b.deploymentid = a.deploymentid /\ b.envid = envkey}

\* C21: for every lineage with a positive-keyed deployment in the requested
\* environment, the resolved deployment set holds the most recently created
\* such deployment of the lineage, also when the newest row of the lineage
\* has a non-positive key or names a deployment of another environment.
NewestQualifyingDeploymentResolved ==
    \A p \in Procs :
        Resolved(loc[p]) =>
            LET rows == DeployedTo(db, KeyOf(loc[p].envid)) IN
            \A a \in rows :
                \E n \in rows :
                    /\ n.parentid = a.parentid
                    /\ \A o \in rows : o.parentid = a.parentid => o.created <= n.created
                    /\ n.deploymentid \in Range(loc[p].deploylist)

\* the SBOM query of the attempt has returned its rows
SbomRead(l) == l.pc = "correlate"

\* C22: every package row the SBOM query returns belongs to a component of
\* the resolved scope: the given component, the active components of the
\* application, or the components attached to the resolved deployments.
PackagesWithinScope ==
    \A p \in Procs :
        SbomRead(loc[p]) =>
            \A r \in loc[p].df_pkgs :
                \E c \in db.component : c.name = r.compname /\ c.id \in ScopeKeys(loc[p])

\* the selected columns of a package row that come from a dependency or a
\* staged row b
SamePackage(r, b) ==
    /\ r.packagename = b.packagename /\ r.packageversion = b.packageversion
    /\ r.name = b.name /\ r.url = b.url /\ r.summary = b.summary
    /\ r.purl = b.purl /\ r.pkgtype = b.pkgtype
    /\ r.compname = CompName(db, b.compid)

\* C23: for each identifier kind, a package row the SBOM query takes from
\* the persisted dependencies comes from a dependency of type 'license':
\* every row returned is a staged row or a persisted license dependency.
OnlyLicenseDependencies ==
    \A p \in Procs :
        SbomRead(loc[p]) =>
            \A r \in loc[p].df_pkgs :
                \/ \E b \in sessions[loc[p].conn].sbom : SamePackage(r, b)
                \/ \E b \in db.componentdeps : b.deptype = "license" /\ SamePackage(r, b)

-----------------------------------------------------------------------------
(* Vulnerability pairing, main.py:384-426 *)

\* the distinct vulnerability ids that match record r
IdsOf(l, r) == {v.id : v \in MatchesOf(l, r)}
\* the pairs of a package record and a vulnerability id matching it
Findings(l) == UNION {{<<r, id>> : id \in IdsOf(l, r)} : r \in PackageRecords(l)}
Unmatched(l) == {r \in PackageRecords(l) : MatchesOf(l, r) = {}}

\* C24: a package record that matches N distinct vulnerability ids gives N
\* correlated rows, one per id, also when a vulnerability is in the staged
\* and in the persisted corpus with copies that differ in package URL,
\* summary or risk level.
OneRowPerVulnerabilityId ==
    \A p \in Procs :
        Correlated(loc[p]) =>
            Len(loc[p].df) = Cardinality(Findings(loc[p])) + Cardinality(Unmatched(loc[p]))

\* C25: the order of the rows of the final tables is a function of the set
\* of correlated rows: in whatever order the two queries deliver the same
\* rows, the sort leaves the same tables.
RowOrderIndependentOfQueryOrder ==
    \A p \in Procs :
        LET l == loc[p] IN
        Correlated(l) =>
            \A pkgs \in Enumerations(PackageRecords(l)),
               df_vulns \in Enumerations(VulnRecordsRead(l)) :
                Tables(SortValues(Merge(pkgs, df_vulns), l.envid # None), l.envid # None)
                    = l.tables

\* C26: a row is in the No-Risk table only if its package matched no
\* vulnerability: every row of that table has an empty CVE cell, whatever
\* risk level the vulnerability records hold.
NoRiskRowsCarryNoVulnerability ==
    \A p \in Procs :
        \A i \in DOMAIN loc[p].tables.good : loc[p].tables.good[i].CVE = <<>>

-----------------------------------------------------------------------------
(* Rendering of the CVE cell, main.py:38-40, 420 *)

\* label is what follows the last "/" of url
AfterLastSlash(label, url) ==
    /\ Len(label) < Len(url)
    /\ SubSeq(url, Len(url) - Len(label) + 1, Len(url)) = label
    /\ url[Len(url) - Len(label)] = "/"
    /\ \A k \in DOMAIN label : label[k] # "/"
\* the cell rendered for vulnerability id: empty for the empty id, else a
\* link <<"a", target, label>> to the id's page
RenderedAs(cell, id) ==
    IF id = <<>> THEN cell = <<>>
    ELSE /\ Len(cell) = 3 /\ cell[1] = "a"
         /\ cell[2] = OsvPrefix \o id
         /\ AfterLastSlash(cell[3], cell[2])

\* C27: in every correlated row a non-empty vulnerability id is rendered as
\* a link to "https://osv.dev/vulnerability/" followed by the id, labelled
\* with what follows the last "/" of that URL; an empty id is rendered as
\* the empty string.
VulnerabilityIdsRenderedAsLinks ==
    \A p \in Procs :
        LET l == loc[p]
            final == FinalTable(l.tables)
        IN Sorted(l) =>
            /\ Len(final) = Len(l.df)
            /\ \A i \in DOMAIN l.df : RenderedAs(final[i].CVE, l.df[i].CVE)
\* an id with a "/" in it, an id without, and a row without vulnerability
LinksAndEmptyCells ==
    \E p \in Procs :
        /\ Sorted(loc[p])
        /\ \E i, j, k \in DOMAIN loc[p].df :
            /\ loc[p].df[i].CVE = OSV3 /\ loc[p].df[j].CVE = GHSA1
            /\ loc[p].df[k].CVE = <<>>
            /\ FinalTable(loc[p].tables)[i].CVE[3] = <<"3">>
            /\ FinalTable(loc[p].tables)[k].CVE = <<>>

-----------------------------------------------------------------------------
(* The component-ownership section, main.py:428-569 *)

\* the components whose summaries the section of the request may hold
OwnershipScope(l) ==
    IF l.compid # None THEN {b \in db.component : b.id = KeyOf(l.compid)}
    ELSE IF l.appid # None
    THEN {b \in db.component :
            /\ b.status = "N"
            /\ \E ac \in db.applicationcomponent :
                    ac.appid = KeyOf(l.appid) /\ ac.compid = b.id}
    ELSE {}
\* the attempt is past the object name: the section is being built or done
PastObjname(l) == l.pc \in {"meta", "commit", "render"}

\* C28: the component-ownership section holds summaries of the requested
\* component only, or of the active components of the requested application
\* only, and is empty for an environment; while it is built the five
\* package tables stay the split of the sorted frame, row for row.
OwnershipSectionWithinKind ==
    \A p \in Procs :
        LET l == loc[p] IN
        /\ \A i \in DOMAIN l.comptable :
                \E b \in OwnershipScope(l) :
                    l.comptable[i].compname = fulldomain(b.domainid, b.name)
        /\ PastObjname(l) => l.tables = Tables(l.df, l.envid # None)
        /\ Reported(l) => /\ l.response.tables = l.tables
                           /\ l.response.comptable = l.comptable
\* the report of an application with an active and a retired component,
\* both with metadata: one summary, and package tables
OwnershipOfActiveComponentOnly ==
    \E p \in Procs :
        /\ Reported(loc[p]) /\ loc[p].appid # None
        /\ Len(loc[p].response.comptable) = 1
        /\ Cardinality(MetaRowsAnyStatus(db, loc[p])) = 2
        /\ loc[p].response.tables # NoTables

-----------------------------------------------------------------------------
(* Candidate pool and pairing, main.py:385-398 *)

\* the vulnerability rows read that the composite key alone selects
KeyOnlyPool(l) ==
    {v \in VulnRecordsRead(l) :
        At(v.packagename, v.packageversion) \in PkgList(PackageRecords(l))}
\* the tables that pool gives, for every order of delivery
TablesOfKeyOnlyPool(l) ==
    {Tables(SortValues(Merge(pkgs, df_vulns), l.envid # None), l.envid # None) :
        pkgs \in Enumerations(PackageRecords(l)),
        df_vulns \in Enumerations(KeyOnlyPool(l))}

\* C29: package-URL matching does not change the report: the tables built
\* from the pool selected by composite key or package URL are tables the
\* pool selected by composite key alone gives, also when a staged package
\* brings the empty string into the URL list.
PurlMatchingChangesNothing ==
    \A p \in Procs :
        Correlated(loc[p]) => loc[p].tables \in TablesOfKeyOnlyPool(loc[p])
\* the pool holds a vulnerability of another package, selected through the
\* empty package URL of a staged package
SelectedByEmptyPurlOnly ==
    \E p \in Procs :
        /\ Correlated(loc[p])
        /\ "" \in PurlList(PackageRecords(loc[p]))
        /\ \E v \in VulnRecordsRead(loc[p]) \ KeyOnlyPool(loc[p]) : v.purl = ""

-----------------------------------------------------------------------------
(* Displayed rows, main.py:309-331, 398-426 *)

\* C30: no rendered package table holds two identical rows: package records
\* that differ only in columns dropped before display give one displayed
\* row per finding.
NoIdenticalDisplayedRows ==
    \A p \in Procs :
        /\ NoDuplicates(loc[p].tables.critical) /\ NoDuplicates(loc[p].tables.high)
        /\ NoDuplicates(loc[p].tables.medium) /\ NoDuplicates(loc[p].tables.low)
        /\ NoDuplicates(loc[p].tables.good)

=============================================================================
